---------------------------- MODULE Spec2Model ----------------------------
(***************************************************************************)
(* A model of fd's scanning core (src/walk.rs): the filter chain applied   *)
(* to every discovered entry, the producer callbacks of the parallel       *)
(* walker, the channel, the three kinds of consumer (printer, batch, job   *)
(* pool), the two-stage interrupt handler and scan's return.               *)
(***************************************************************************)
EXTENDS Integers, Sequences, FiniteSets, TLC

(***************************************************************************)
(* Bounds of the model and the one program constant.                       *)
(***************************************************************************)
\* Non-root nodes of the directory tree the walker traverses.
MaxNodes == 3
\* Largest configured thread count (walker threads and job threads).
MaxThreads == 2
\* Largest configured max-result count.
MaxK == 2
\* Largest depth an entry handed to the filter may have.
MaxDepth == 2
\* Largest configured minimum depth.
MaxMinDepth == 2
\* Longest arrival sequence enumerated message by message.
MaxFeed == 3
\* Distinct paths in an enumerated arrival sequence.
MaxPath == 2
\* Entries a long arrival sequence holds beyond MAX_BUFFER_LENGTH.
MaxExtra == 2

\* pub const MAX_BUFFER_LENGTH: usize = 1000;
MAX_BUFFER_LENGTH == 1000

\* Option<T>: None is the empty sequence, Some(x) the sequence of x alone.
\* A field that holds a string uses the string "None".
None == "None"
Nothing == <<>>
Some(x) == <<x>>
IsSome(o) == o # <<>>
Get(o) == o[1]

(***************************************************************************)
(* The filter pipeline, filter_entry.  An input entry_o is a record: what  *)
(* the walker hands over (Ok(entry) or Err(error)) together with what the  *)
(* file system and the compiled patterns answer for its path.              *)
(*   kind        "Ok" | "ErrWithPath" | "ErrOther"                         *)
(*   depth       e.depth() of an Ok entry                                  *)
(*   inner       of ErrWithPath: "IoNotFound" | "IoOther" | "NonIo"        *)
(*   path_symlink  path.symlink_metadata() says symlink                    *)
(*   has_name    entry_path.file_name() is Some                            *)
(*   name_match  pattern.is_match(file name)                               *)
(*   path_match  pattern.is_match(absolute path)                           *)
(*   ext_match   exts_regex.is_match(file name)                            *)
(*   ftype       "file" | "dir" | "symlink" | "socket" | "pipe" | "other"  *)
(*               | None (the type cannot be determined)                    *)
(*   meta_ok     e.metadata() is Ok;  executable, empty: the predicates    *)
(*   pmeta_ok    entry_path.metadata() is Ok;  owner_match                 *)
(*   is_file     entry_path.is_file();  size: metadata.len()               *)
(*   mtime_ok    metadata.modified() is Ok;  mtime                         *)
(***************************************************************************)

\* let empty_ok = (ignore::WalkState::Continue, None);
empty_ok == [next |-> "Continue", item |-> Nothing]

EntryItem(p) == [tag |-> "Entry", path |-> p]
ErrorItem(p) == [tag |-> "Error", path |-> p]

\* Classify without the root arm: a depth-0 entry is filtered like any other.
ClassifyKeepingRoot(e) ==
    IF e.kind = "Ok" THEN "Normal"
    ELSE IF e.kind = "ErrWithPath" /\ e.inner = "IoNotFound" /\ e.path_symlink
         THEN "BrokenSymlink"
         ELSE "Error"

\* Classify without the BrokenSymlink arm: every error is forwarded.
ClassifyForwardingAll(e) ==
    IF e.kind = "Ok"
    THEN IF e.depth = 0 THEN "Root" ELSE "Normal"
    ELSE "Error"

\* The match on entry_o: "Root" (depth 0, dropped), "Normal", "BrokenSymlink"
\* (a not-found error on a path that is itself a symlink) or "Error".
Classify(e) ==
    IF e.kind = "Ok"
    THEN IF e.depth = 0 THEN "Root" ELSE "Normal"
    ELSE IF e.kind = "ErrWithPath" /\ e.inner = "IoNotFound" /\ e.path_symlink
         THEN "BrokenSymlink"
         ELSE "Error"

\* DirEntry::depth: Some(e.depth()) for Normal, None for BrokenSymlink.
EntryDepth(variant, e) == IF variant = "Normal" THEN Some(e.depth) ELSE Nothing

\* DirEntry::file_type.
EntryFileType(variant, e) ==
    IF variant = "Normal" THEN e.ftype
    ELSE IF e.path_symlink THEN "symlink" ELSE None

\* DirEntry::metadata: None for BrokenSymlink.
EntryMetadataOk(variant, e) == variant = "Normal" /\ e.meta_ok

\* MinDepthDrops with map_or(false, ..): an undetermined depth passes.
MinDepthDropsKnownOnly(cfg, variant, e) ==
    /\ IsSome(cfg.min_depth)
    /\ LET d == EntryDepth(variant, e)
       IN  IF IsSome(d) THEN Get(d) < Get(cfg.min_depth) ELSE FALSE

\* if let Some(min_depth) = config.min_depth
\*     { if entry.depth().map_or(true, |d| d < min_depth) { return empty_ok; } }
MinDepthDrops(cfg, variant, e) ==
    /\ IsSome(cfg.min_depth)
    /\ LET d == EntryDepth(variant, e)
       IN  IF IsSome(d) THEN Get(d) < Get(cfg.min_depth) ELSE TRUE

\* The search string and the pattern match: "panic" is the unreachable!() of
\* the name-only branch on an entry without a file name.
PatternResult(cfg, e) ==
    IF cfg.search_full_path
    THEN IF e.path_match THEN "match" ELSE "nomatch"
    ELSE IF ~e.has_name THEN "panic"
         ELSE IF e.name_match THEN "match" ELSE "nomatch"

\* ExtensionDrops letting an entry without a file name pass.
ExtensionDropsNamedOnly(cfg, e) ==
    /\ cfg.extensions
    /\ IF e.has_name THEN ~e.ext_match ELSE FALSE

\* Filter out unwanted extensions.
ExtensionDrops(cfg, e) ==
    /\ cfg.extensions
    /\ IF e.has_name THEN ~e.ext_match ELSE TRUE

KnownTypes == {"file", "dir", "symlink", "socket", "pipe"}

\* Filter out unwanted file types.
FileTypeDrops(cfg, variant, e) ==
    /\ IsSome(cfg.file_types)
    /\ LET ft == Get(cfg.file_types)
           t  == EntryFileType(variant, e)
       IN  IF t = None THEN TRUE
           ELSE \/ (~ft.files /\ t = "file")
                \/ (~ft.directories /\ t = "dir")
                \/ (~ft.symlinks /\ t = "symlink")
                \/ (~ft.sockets /\ t = "socket")
                \/ (~ft.pipes /\ t = "pipe")
                \/ (ft.executables_only
                      /\ ~(EntryMetadataOk(variant, e) /\ e.executable))
                \/ (ft.empty_only /\ ~e.empty)
                \/ t \notin KnownTypes

\* OwnerDrops forgiving the owner when a configured size constraint is met.
OwnerDropsUnlessSized(cfg, e) ==
    /\ cfg.owner_constraint
    /\ IF e.pmeta_ok THEN ~e.owner_match ELSE TRUE
    /\ ~(cfg.size_constraints # {} /\ e.is_file
           /\ \A sc \in cfg.size_constraints :
                 IF sc.max THEN e.size <= sc.limit ELSE e.size >= sc.limit)

\* The owner constraint (unix).
OwnerDrops(cfg, e) ==
    /\ cfg.owner_constraint
    /\ IF e.pmeta_ok THEN ~e.owner_match ELSE TRUE

\* SizeFilter::is_within: a constraint is [max |-> BOOLEAN, limit |-> Nat].
IsWithin(sc, size) == IF sc.max THEN size <= sc.limit ELSE size >= sc.limit

\* SizeDrops letting through what is not a regular file.
SizeDropsFilesOnly(cfg, e) ==
    /\ cfg.size_constraints # {}
    /\ IF e.is_file
       THEN IF e.pmeta_ok
            THEN \E sc \in cfg.size_constraints : ~IsWithin(sc, e.size)
            ELSE TRUE
       ELSE FALSE

\* Filter out unwanted sizes.
SizeDrops(cfg, e) ==
    /\ cfg.size_constraints # {}
    /\ IF e.is_file
       THEN IF e.pmeta_ok
            THEN \E sc \in cfg.size_constraints : ~IsWithin(sc, e.size)
            ELSE TRUE
       ELSE TRUE

\* TimeFilter::applies_to: a constraint is [before |-> BOOLEAN, t |-> Nat].
AppliesTo(tf, mtime) == IF tf.before THEN mtime < tf.t ELSE mtime > tf.t

\* Filter out unwanted modification times.
TimeDrops(cfg, e) ==
    /\ cfg.time_constraints # {}
    /\ LET matched == /\ e.pmeta_ok
                      /\ e.mtime_ok
                      /\ \A tf \in cfg.time_constraints : AppliesTo(tf, e.mtime)
       IN  ~matched

\* PruneState ignoring config.prune.
PruneStateNever(cfg) == "Continue"

\* Apply pruning.
PruneState(cfg) == IF cfg.prune THEN "Skip" ELSE "Continue"

\* filter_entry: (continuation, optional WorkerResult).  The continuation "Panic"
\* stands for the unreachable!() of the name-only branch.
filter_entry(cfg, e) ==
    LET variant == Classify(e) IN
    IF variant = "Root" THEN empty_ok
    ELSE IF variant = "Error" THEN [next |-> "Continue", item |-> Some(ErrorItem(e.path))]
    ELSE IF MinDepthDrops(cfg, variant, e) THEN empty_ok
    ELSE IF PatternResult(cfg, e) = "panic" THEN [next |-> "Panic", item |-> Nothing]
    ELSE IF PatternResult(cfg, e) = "nomatch" THEN empty_ok
    ELSE IF ExtensionDrops(cfg, e) THEN empty_ok
    ELSE IF FileTypeDrops(cfg, variant, e) THEN empty_ok
    ELSE IF OwnerDrops(cfg, e) THEN empty_ok
    ELSE IF SizeDrops(cfg, e) THEN empty_ok
    ELSE IF TimeDrops(cfg, e) THEN empty_ok
    ELSE [next |-> PruneState(cfg), item |-> Some(EntryItem(e.path))]


(***************************************************************************)
(* The state.                                                              *)
(***************************************************************************)
VARIABLES
    config,         \* the Options snapshot
    entries,        \* node -> the entry_o the walker yields for it
    work,           \* the walker's pending nodes
    workers,        \* walker thread -> its position in the callback
    quit_now,       \* a callback returned Quit: the walker stops
    tx_open,        \* some Sender is still alive
    rx_open,        \* the Receiver is still alive
    queue,          \* the channel's content
    sent,           \* history: every item a send accepted, in order
    arrived,        \* history: every item a consumer received, in order
    printer,        \* the EntryPrinter: mode, buffer, num_results, stdout
    stderr,         \* number of errors reported by print_error
    elapsed,        \* Instant::now() - start > max_buffer_time
    late,           \* history: an Entry was accepted with elapsed true
    consumer,       \* the receiver thread's position
    jobs,           \* job thread -> its position (pool mode)
    batch,          \* the paths collected by exec::batch
    invoked,        \* history: command argument -> number of invocations
    cmdout,         \* the output written by the commands, in chunks
    wants_to_quit,  \* the cancellation flag
    exited,         \* None, or the status process::exit was called with
    scan_pc,        \* scan's position: "walking", "joining", "returned"
    scan_result,    \* the ExitCode scan returned
    fin,            \* filter_entry's arguments (filter specification)
    fout            \* filter_entry's result (filter specification)

vars == <<config, entries, work, workers, quit_now, tx_open, rx_open, queue,
          sent, arrived, printer, stderr, elapsed, late, consumer, jobs, batch,
          invoked, cmdout, wants_to_quit, exited, scan_pc, scan_result, fin, fout>>

walkVars == <<entries, work, workers, quit_now>>
printVars == <<printer, stderr, late>>
execVars == <<jobs, batch, invoked, cmdout>>
filterVars == <<fin, fout>>

(***************************************************************************)
(* The directory tree: node 0 is the search root, node n > 0 lies in       *)
(* directory Parent(n).  A node stands for its path; paths sort by number. *)
(***************************************************************************)
Nodes == 0 .. MaxNodes
Parent(n) == (n - 1) \div 2
Children(n) == {m \in Nodes \ {0} : Parent(m) = n}

RECURSIVE Depth(_)
Depth(n) == IF n = 0 THEN 0 ELSE 1 + Depth(Parent(n))

RECURSIVE Ancestors(_)
Ancestors(n) == IF n = 0 THEN {} ELSE {Parent(n)} \cup Ancestors(Parent(n))

\* What the walker yields for node n: an entry the pattern matches or not,
\* a traversal error, or the error of a dangling symlink.
NodeKinds == {"match", "nomatch", "error", "broken"}

EntryOf(n, k) ==
    [kind |-> CASE k = "error" -> "ErrOther"
                [] k = "broken" -> "ErrWithPath"
                [] OTHER -> "Ok",
     depth |-> Depth(n), inner |-> "IoNotFound", path_symlink |-> (k = "broken"),
     path |-> n, has_name |-> n # 0,
     name_match |-> (k # "nomatch"), path_match |-> (k # "nomatch"),
     ext_match |-> TRUE,
     ftype |-> IF k = "broken" THEN "symlink"
               ELSE IF Children(n) # {} THEN "dir" ELSE "file",
     meta_ok |-> TRUE, executable |-> FALSE, empty |-> FALSE,
     pmeta_ok |-> (k # "broken"), owner_match |-> TRUE,
     is_file |-> (Children(n) = {} /\ k # "broken"), size |-> 0,
     mtime_ok |-> TRUE, mtime |-> 0]

\* The walker descends into a node it yielded as a directory entry.
IsDir(e) == e.kind = "Ok" /\ e.ftype = "dir"

(***************************************************************************)
(* Configurations.  config.command is "None" (printer mode), "batch" or    *)
(* "pool" (a command run once over all entries, or once per entry).        *)
(***************************************************************************)
\* if config.ls_colors.is_some() && config.command.is_none() { ctrlc::set_handler(..) }
HandlerInstalled(cfg) == cfg.ls_colors /\ cfg.command = None


(***************************************************************************)
(* The printer, EntryPrinter.                                              *)
(***************************************************************************)
\* output::print_entry: writes one line for the path.
print_entry(stdout, v) == Append(stdout, v)

\* for v in vs { output::print_entry(stdout, v, ..) }
PrintAll(stdout, vs) == stdout \o [i \in 1 .. Len(vs) |-> print_entry(<<>>, vs[i])[1]]

\* self.buffer.sort(): paths in ascending order.
RECURSIVE Insert(_, _)
Insert(x, s) ==
    IF s = <<>> THEN <<x>>
    ELSE IF x <= Head(s) THEN <<x>> \o s
    ELSE <<Head(s)>> \o Insert(x, Tail(s))

RECURSIVE SortPaths(_)
SortPaths(s) == IF s = <<>> THEN <<>> ELSE Insert(Head(s), SortPaths(Tail(s)))

\* EntryPrinter::new
NewPrinter == [mode |-> "Buffering", buffer |-> <<>>, num_results |-> 0,
               stdout |-> <<>>]

\* BufferFull with >= for >: the 1000th buffered entry flushes.
BufferFullAt(buffer, timeUp) == Len(buffer) >= MAX_BUFFER_LENGTH \/ timeUp

\* Have we reached the maximum buffer size or maximum buffering time?
BufferFull(buffer, timeUp) == Len(buffer) > MAX_BUFFER_LENGTH \/ timeUp

\* AcceptBuffering flushing without self.buffer.clear().
AcceptBufferingKeeping(p, value, timeUp) ==
    LET pushed == Append(p.buffer, value) IN
    IF BufferFull(pushed, timeUp)
    THEN [p EXCEPT !.stdout = PrintAll(p.stdout, pushed),
                   !.buffer = pushed,
                   !.mode = "Streaming"]
    ELSE [p EXCEPT !.buffer = pushed]

\* The Entry arm of accept in mode Buffering.
AcceptBuffering(p, value, timeUp) ==
    LET pushed == Append(p.buffer, value) IN
    IF BufferFull(pushed, timeUp)
    THEN [p EXCEPT !.stdout = PrintAll(p.stdout, pushed),
                   !.buffer = <<>>,
                   !.mode = "Streaming"]
    ELSE [p EXCEPT !.buffer = pushed]

\* AcceptStreaming falling back to Buffering after the line is written.
AcceptStreamingRebuffer(p, value) ==
    [p EXCEPT !.stdout = print_entry(p.stdout, value), !.mode = "Buffering"]

\* The Entry arm of accept in mode Streaming.
AcceptStreaming(p, value) == [p EXCEPT !.stdout = print_entry(p.stdout, value)]

\* The Entry arm of accept: buffer or print, then count.
AcceptEntry(p, value, timeUp) ==
    LET q == IF p.mode = "Buffering" THEN AcceptBuffering(p, value, timeUp)
             ELSE AcceptStreaming(p, value)
    IN  [q EXCEPT !.num_results = q.num_results + 1]

\* LimitReached with > for >=: one result too many.
LimitReachedLate(cfg, num_results) ==
    IsSome(cfg.max_results) /\ num_results > Get(cfg.max_results)

\* if let Some(max_results) = .. { if self.num_results >= max_results { return false; } }
LimitReached(cfg, num_results) ==
    IsSome(cfg.max_results) /\ num_results >= Get(cfg.max_results)

\* The Error arm of accept: 1 if print_error is called.
ErrorsReported(cfg, msg) ==
    IF msg.tag = "Error" /\ cfg.show_filesystem_errors THEN 1 ELSE 0

\* accept counting an Error as a result.
acceptCountingErrors(p, msg, cfg, timeUp) ==
    LET q == IF msg.tag = "Entry" THEN AcceptEntry(p, msg.path, timeUp)
             ELSE [p EXCEPT !.num_results = p.num_results + 1]
    IN  [printer |-> q, continue |-> ~LimitReached(cfg, q.num_results)]

\* EntryPrinter::accept: the printer afterwards and the value returned.
accept(p, msg, cfg, timeUp) ==
    LET q == IF msg.tag = "Entry" THEN AcceptEntry(p, msg.path, timeUp) ELSE p
    IN  [printer |-> q, continue |-> ~LimitReached(cfg, q.num_results)]

\* drop without the sort.
dropUnsorted(p) ==
    IF p.buffer # <<>> THEN [p EXCEPT !.stdout = PrintAll(p.stdout, p.buffer)] ELSE p

\* Drop for EntryPrinter: the teardown flush.
drop(p) ==
    IF p.buffer # <<>>
    THEN [p EXCEPT !.stdout = PrintAll(p.stdout, SortPaths(p.buffer))]
    ELSE p

(***************************************************************************)
(* The channel.                                                            *)
(***************************************************************************)
\* Recv that leaves the message in the channel.
RecvPeek(q) == [msg |-> Head(q), rest |-> q]

\* Receiver::recv on a non-empty channel: the message taken and what is left.
Recv(q) == [msg |-> Head(q), rest |-> Tail(q)]

(***************************************************************************)
(* The producers: the walker's threads running spawn_senders' callback.    *)
(***************************************************************************)
Threads == 1 .. config.threads

Running == exited = None

IdleWorker == [pc |-> "idle", node |-> 0, next |-> "Continue", item |-> Nothing]

\* VisitQuit taking the flag with swap(false) instead of load.
VisitQuitClearing(w) ==
    /\ Running /\ scan_pc = "walking" /\ ~quit_now
    /\ workers[w].pc = "idle"
    /\ wants_to_quit
    /\ wants_to_quit' = FALSE
    /\ \E n \in work :
          /\ work' = work \ {n}
          /\ quit_now' = TRUE
    /\ UNCHANGED <<config, entries, workers, tx_open, rx_open, queue, sent, arrived,
                   printVars, elapsed, consumer, execVars, exited,
                   scan_pc, scan_result, filterVars>>

\* The callback's first statement with the flag set: return Quit.
VisitQuit(w) ==
    /\ Running /\ scan_pc = "walking" /\ ~quit_now
    /\ workers[w].pc = "idle"
    /\ wants_to_quit
    /\ \E n \in work :
          /\ work' = work \ {n}
          /\ quit_now' = TRUE
    /\ UNCHANGED <<config, entries, workers, tx_open, rx_open, queue, sent, arrived,
                   printVars, elapsed, consumer, execVars, wants_to_quit, exited,
                   scan_pc, scan_result, filterVars>>

\* The callback with the flag clear: run filter_entry on the entry.
VisitFilter(w) ==
    /\ Running /\ scan_pc = "walking" /\ ~quit_now
    /\ workers[w].pc = "idle"
    /\ ~wants_to_quit
    /\ \E n \in work :
          LET r == filter_entry(config, entries[n]) IN
          /\ work' = work \ {n}
          /\ workers' = [workers EXCEPT ![w] =
                 [pc |-> "send", node |-> n, next |-> r.next, item |-> r.item]]
    /\ UNCHANGED <<config, entries, quit_now, tx_open, rx_open, queue, sent, arrived,
                   printVars, elapsed, consumer, execVars, wants_to_quit, exited,
                   scan_pc, scan_result, filterVars>>

\* Returned ignoring a failed send: always the filter's signal.
ReturnedIgnoringSend(wk, sendFailed) == wk.next

\* What the callback returns: Quit when the send fails, else the filter's signal.
Returned(wk, sendFailed) == IF sendFailed THEN "Quit" ELSE wk.next

\* The rest of the callback: send the item, return; the walker then follows the
\* continuation: Quit stops every thread, Continue descends into a directory.
VisitSend(w) ==
    /\ Running /\ scan_pc = "walking"
    /\ workers[w].pc = "send"
    /\ LET wk == workers[w]
           sending == IsSome(wk.item)
           failed == sending /\ ~rx_open
           ret == Returned(wk, failed)
       IN  /\ IF sending /\ rx_open
              THEN /\ queue' = Append(queue, Get(wk.item))
                   /\ sent' = Append(sent, Get(wk.item))
              ELSE UNCHANGED <<queue, sent>>
           /\ quit_now' = (quit_now \/ ret = "Quit")
           /\ work' = IF ret = "Continue" /\ IsDir(entries[wk.node])
                      THEN work \cup Children(wk.node)
                      ELSE work
    /\ workers' = [workers EXCEPT ![w] = IdleWorker]
    /\ UNCHANGED <<config, entries, tx_open, rx_open, arrived, printVars, elapsed,
                   consumer, execVars, wants_to_quit, exited, scan_pc, scan_result,
                   filterVars>>

\* WalkDone keeping tx alive after the walk.
WalkDoneKeepingSender ==
    /\ Running /\ scan_pc = "walking"
    /\ \A w \in Threads : workers[w].pc = "idle"
    /\ work = {} \/ quit_now
    /\ scan_pc' = "joining"
    /\ UNCHANGED <<config, walkVars, tx_open, rx_open, queue, sent, arrived, printVars,
                   elapsed, consumer, execVars, wants_to_quit, exited, scan_result,
                   filterVars>>

\* parallel_walker.run returns: every thread has stopped.  spawn_senders returns
\* and drops tx, the last Sender.
WalkDone ==
    /\ Running /\ scan_pc = "walking"
    /\ \A w \in Threads : workers[w].pc = "idle"
    /\ work = {} \/ quit_now
    /\ scan_pc' = "joining"
    /\ tx_open' = FALSE
    /\ UNCHANGED <<config, walkVars, rx_open, queue, sent, arrived, printVars,
                   elapsed, consumer, execVars, wants_to_quit, exited, scan_result,
                   filterVars>>


(***************************************************************************)
(* The consumer in printer mode: spawn_receiver's loop over rx.            *)
(***************************************************************************)
\* for worker_result in rx { if !acceptor.accept(worker_result) { break; } }
PrinterRecv ==
    /\ Running /\ config.command = None
    /\ consumer.pc = "run"
    /\ queue # <<>>
    /\ LET r == Recv(queue)
           a == accept(printer, r.msg, config, elapsed)
       IN  /\ queue' = r.rest
           /\ arrived' = Append(arrived, r.msg)
           /\ printer' = a.printer
           /\ stderr' = stderr + ErrorsReported(config, r.msg)
           /\ late' = (late \/ (r.msg.tag = "Entry" /\ elapsed))
           /\ IF a.continue
              THEN UNCHANGED <<consumer, rx_open>>
              ELSE /\ consumer' = [consumer EXCEPT !.pc = "teardown"]
                   /\ rx_open' = FALSE
    /\ UNCHANGED <<config, walkVars, tx_open, sent, elapsed, execVars,
                   wants_to_quit, exited, scan_pc, scan_result, filterVars>>

\* The loop ends: the channel is empty and every Sender is gone.
PrinterClosed ==
    /\ Running /\ config.command = None
    /\ consumer.pc = "run"
    /\ queue = <<>> /\ ~tx_open
    /\ consumer' = [consumer EXCEPT !.pc = "teardown"]
    /\ rx_open' = FALSE
    /\ UNCHANGED <<config, walkVars, tx_open, queue, sent, arrived, printVars,
                   elapsed, execVars, wants_to_quit, exited, scan_pc, scan_result,
                   filterVars>>

\* The thread's closure ends: acceptor is dropped, the value is ExitCode::Success.
PrinterDrop ==
    /\ Running /\ config.command = None
    /\ consumer.pc = "teardown"
    /\ printer' = drop(printer)
    /\ consumer' = [pc |-> "done", code |-> "Success"]
    /\ UNCHANGED <<config, walkVars, tx_open, rx_open, queue, sent, arrived, stderr,
                   late, elapsed, execVars, wants_to_quit, exited, scan_pc,
                   scan_result, filterVars>>

\* max_buffer_time passes since EntryPrinter::new.
Tick ==
    /\ Running /\ config.command = None
    /\ consumer.pc = "run"
    /\ ~elapsed
    /\ elapsed' = TRUE
    /\ UNCHANGED <<config, walkVars, tx_open, rx_open, queue, sent, arrived,
                   printVars, consumer, execVars, wants_to_quit, exited, scan_pc,
                   scan_result, filterVars>>

(***************************************************************************)
(* The consumer in batch mode: exec::batch.                                *)
(***************************************************************************)
\* The fatal outcome of a command: it was killed by an interrupt.
Fatal == "KilledBySigint"

CommandOutcomes == {"Success", "GeneralError", Fatal}

\* merge of two outcomes: a fatal one dominates, else the first non-success.
MergeCodes(a, b) ==
    IF a = Fatal \/ b = Fatal THEN Fatal
    ELSE IF a = "Success" THEN b ELSE a

\* invoked with one more invocation on argument x.
Invoke(b, x) == IF x \in DOMAIN b THEN [b EXCEPT ![x] = @ + 1] ELSE b @@ (x :> 1)

BatchRecv ==
    /\ Running /\ config.command = "batch"
    /\ consumer.pc = "run"
    /\ queue # <<>>
    /\ LET r == Recv(queue) IN
           /\ queue' = r.rest
           /\ arrived' = Append(arrived, r.msg)
           /\ batch' = IF r.msg.tag = "Entry" THEN Append(batch, r.msg.path) ELSE batch
           /\ stderr' = stderr + ErrorsReported(config, r.msg)
    /\ UNCHANGED <<config, walkVars, tx_open, rx_open, sent, printer, late, elapsed,
                   consumer, jobs, invoked, cmdout, wants_to_quit, exited, scan_pc,
                   scan_result, filterVars>>

\* The channel is exhausted: the command runs once over the collected paths.
BatchClosed ==
    /\ Running /\ config.command = "batch"
    /\ consumer.pc = "run"
    /\ queue = <<>> /\ ~tx_open
    /\ invoked' = Invoke(invoked, batch)
    /\ \E code \in CommandOutcomes : consumer' = [pc |-> "done", code |-> code]
    /\ rx_open' = FALSE
    /\ UNCHANGED <<config, walkVars, tx_open, queue, sent, arrived, printVars,
                   elapsed, jobs, batch, cmdout, wants_to_quit, exited, scan_pc,
                   scan_result, filterVars>>

(***************************************************************************)
(* The consumer in pool mode: config.threads job threads running exec::job *)
(* on one shared Receiver and one shared output permit.                    *)
(***************************************************************************)
\* for _ in 0..threads { .. thread::spawn(.. exec::job(rx, cmd, out_perm, ..)) }
JobThreads(cfg) == 1 .. cfg.threads

\* OutPerm with a permit of its own for every job.
OutPermOwn(j) == j

\* let out_perm = Arc::new(Mutex::new(())); every job gets a clone of it.
OutPerm(j) == "out_perm"

IdleJob == [pc |-> "idle", path |-> Nothing, code |-> "Success"]

\* A job pulls a message: an Entry starts the command, an Error is reported.
JobRecv(j) ==
    /\ Running /\ config.command = "pool"
    /\ jobs[j].pc = "idle"
    /\ queue # <<>>
    /\ LET r == Recv(queue) IN
           /\ queue' = r.rest
           /\ arrived' = Append(arrived, r.msg)
           /\ stderr' = stderr + ErrorsReported(config, r.msg)
           /\ IF r.msg.tag = "Entry"
              THEN /\ jobs' = [jobs EXCEPT ![j].pc = "run", ![j].path = Some(r.msg.path)]
                   /\ invoked' = Invoke(invoked, r.msg.path)
              ELSE UNCHANGED <<jobs, invoked>>
    /\ UNCHANGED <<config, walkVars, tx_open, rx_open, sent, printer, late, elapsed,
                   consumer, batch, cmdout, wants_to_quit, exited, scan_pc,
                   scan_result, filterVars>>

\* The command has run: the job takes the output permit and starts writing.
JobAcquire(j) ==
    /\ Running /\ config.command = "pool"
    /\ jobs[j].pc = "run"
    /\ \A k \in JobThreads(config) \ {j} :
          jobs[k].pc = "print" => OutPerm(k) # OutPerm(j)
    /\ jobs' = [jobs EXCEPT ![j].pc = "print"]
    /\ cmdout' = Append(cmdout, <<Get(jobs[j].path), "begin">>)
    /\ UNCHANGED <<config, walkVars, tx_open, rx_open, queue, sent, arrived,
                   printVars, elapsed, consumer, batch, invoked, wants_to_quit,
                   exited, scan_pc, scan_result, filterVars>>

\* The job finishes writing, releases the permit and loops.
JobRelease(j) ==
    /\ Running /\ config.command = "pool"
    /\ jobs[j].pc = "print"
    /\ cmdout' = Append(cmdout, <<Get(jobs[j].path), "end">>)
    /\ \E code \in CommandOutcomes :
          jobs' = [jobs EXCEPT ![j] = [pc |-> "idle", path |-> Nothing,
                                       code |-> MergeCodes(jobs[j].code, code)]]
    /\ UNCHANGED <<config, walkVars, tx_open, rx_open, queue, sent, arrived,
                   printVars, elapsed, consumer, batch, invoked, wants_to_quit,
                   exited, scan_pc, scan_result, filterVars>>

\* The channel is exhausted: the job's loop ends.
JobClosed(j) ==
    /\ Running /\ config.command = "pool"
    /\ jobs[j].pc = "idle"
    /\ queue = <<>> /\ ~tx_open
    /\ jobs' = [jobs EXCEPT ![j].pc = "done"]
    /\ UNCHANGED <<config, walkVars, tx_open, rx_open, queue, sent, arrived,
                   printVars, elapsed, consumer, batch, invoked, cmdout,
                   wants_to_quit, exited, scan_pc, scan_result, filterVars>>

RECURSIVE MergeAll(_, _)
MergeAll(js, acc) ==
    IF js = {} THEN acc
    ELSE LET j == CHOOSE k \in js : \A m \in js : k <= m
         IN  MergeAll(js \ {j}, MergeCodes(acc, jobs[j].code))

\* PoolJoin merging as soon as one job has exited.
PoolJoinFirst ==
    /\ Running /\ config.command = "pool"
    /\ consumer.pc = "run"
    /\ \E j \in JobThreads(config) : jobs[j].pc = "done"
    /\ consumer' = [pc |-> "done", code |-> MergeAll(JobThreads(config), "Success")]
    /\ rx_open' = FALSE
    /\ UNCHANGED <<config, walkVars, tx_open, queue, sent, arrived, printVars,
                   elapsed, execVars, wants_to_quit, exited, scan_pc, scan_result,
                   filterVars>>

\* for h in handles { results.push(h.join().unwrap()); } merge_exitcodes(&results)
PoolJoin ==
    /\ Running /\ config.command = "pool"
    /\ consumer.pc = "run"
    /\ \A j \in JobThreads(config) : jobs[j].pc = "done"
    /\ consumer' = [pc |-> "done", code |-> MergeAll(JobThreads(config), "Success")]
    /\ rx_open' = FALSE
    /\ UNCHANGED <<config, walkVars, tx_open, queue, sent, arrived, printVars,
                   elapsed, execVars, wants_to_quit, exited, scan_pc, scan_result,
                   filterVars>>

(***************************************************************************)
(* The interrupt handler and scan's return.                                *)
(***************************************************************************)
\* The handler with the flag clear: wq.store(true).
InterruptFirst ==
    /\ Running /\ HandlerInstalled(config)
    /\ scan_pc # "returned"
    /\ ~wants_to_quit
    /\ wants_to_quit' = TRUE
    /\ UNCHANGED <<config, walkVars, tx_open, rx_open, queue, sent, arrived,
                   printVars, elapsed, consumer, execVars, exited, scan_pc,
                   scan_result, filterVars>>

\* InterruptSecond running the printer's teardown flush on the way out.
InterruptSecondFlushing ==
    /\ Running /\ HandlerInstalled(config)
    /\ scan_pc # "returned"
    /\ wants_to_quit
    /\ exited' = "KilledBySigint"
    /\ printer' = drop(printer)
    /\ UNCHANGED <<config, walkVars, tx_open, rx_open, queue, sent, arrived, stderr,
                   late, elapsed, consumer, execVars, wants_to_quit, scan_pc,
                   scan_result, filterVars>>

\* The handler with the flag set: process::exit(ExitCode::KilledBySigint).
InterruptSecond ==
    /\ Running /\ HandlerInstalled(config)
    /\ scan_pc # "returned"
    /\ wants_to_quit
    /\ exited' = "KilledBySigint"
    /\ UNCHANGED <<config, walkVars, tx_open, rx_open, queue, sent, arrived,
                   printVars, elapsed, consumer, execVars, wants_to_quit, scan_pc,
                   scan_result, filterVars>>

\* ScanReturn returning the consumer's outcome whatever the flag.
ScanReturnIgnoringFlag ==
    /\ Running /\ scan_pc = "joining"
    /\ consumer.pc = "done"
    /\ scan_pc' = "returned"
    /\ scan_result' = consumer.code
    /\ UNCHANGED <<config, walkVars, tx_open, rx_open, queue, sent, arrived,
                   printVars, elapsed, consumer, execVars, wants_to_quit, exited,
                   filterVars>>

\* receiver_thread.join(), then the flag decides the status.
ScanReturn ==
    /\ Running /\ scan_pc = "joining"
    /\ consumer.pc = "done"
    /\ scan_pc' = "returned"
    /\ scan_result' = IF wants_to_quit THEN "KilledBySigint" ELSE consumer.code
    /\ UNCHANGED <<config, walkVars, tx_open, rx_open, queue, sent, arrived,
                   printVars, elapsed, consumer, execVars, wants_to_quit, exited,
                   filterVars>>


(***************************************************************************)
(* The specification of a whole scan.                                      *)
(***************************************************************************)
Options(command, threads, max_results, ls_colors, show, prune, min_depth) ==
    [command |-> command, threads |-> threads, max_results |-> max_results,
     ls_colors |-> ls_colors, show_filesystem_errors |-> show, prune |-> prune,
     min_depth |-> min_depth, search_full_path |-> FALSE, extensions |-> FALSE,
     file_types |-> Nothing, owner_constraint |-> FALSE,
     size_constraints |-> {}, time_constraints |-> {}]

\* max_results is None or at least 1 (the option parser maps 0 to None).
MaxResults == {Nothing} \cup {Some(k) : k \in 1 .. MaxK}

ScanConfigs ==
    {Options(None, t, k, ls, show, prune, Nothing) :
        t \in 1 .. MaxThreads, k \in MaxResults, ls \in BOOLEAN,
        show \in {TRUE}, prune \in BOOLEAN}
    \cup
    {Options(c, t, Nothing, FALSE, show, prune, Nothing) :
        c \in {"batch", "pool"}, t \in 1 .. MaxThreads,
        show \in {TRUE}, prune \in BOOLEAN}

\* The trees: the root's name matches the pattern; the last node, a leaf, may
\* be a traversal error or a dangling symlink.
Trees ==
    {k \in [Nodes -> NodeKinds] :
        /\ k[0] = "match"
        /\ \A n \in Nodes : k[n] \in {"error", "broken"} => n = MaxNodes}

\* The state scan builds before the threads start, with the channel holding q.
Start(cfg, ents, q, walking) ==
    /\ config = cfg
    /\ entries = ents
    /\ work = IF walking THEN {0} ELSE {}
    /\ workers = [w \in 1 .. cfg.threads |-> IdleWorker]
    /\ quit_now = FALSE
    /\ tx_open = walking
    /\ rx_open = TRUE
    /\ queue = q
    /\ sent = q
    /\ arrived = <<>>
    /\ printer = NewPrinter
    /\ stderr = 0
    /\ elapsed = FALSE
    /\ late = FALSE
    /\ consumer = [pc |-> "run", code |-> "Success"]
    /\ jobs = [j \in JobThreads(cfg) |-> IdleJob]
    /\ batch = <<>>
    /\ invoked = <<>>
    /\ cmdout = <<>>
    /\ wants_to_quit = FALSE
    /\ exited = None
    /\ scan_pc = IF walking THEN "walking" ELSE "joining"
    /\ scan_result = None

Init ==
    /\ \E cfg \in ScanConfigs, k \in Trees :
          Start(cfg, [n \in Nodes |-> EntryOf(n, k[n])], <<>>, TRUE)
    /\ fin = Nothing
    /\ fout = Nothing

Next ==
    \/ \E w \in Threads : VisitQuit(w)
    \/ \E w \in Threads : VisitFilter(w)
    \/ \E w \in Threads : VisitSend(w)
    \/ WalkDone
    \/ PrinterRecv \/ PrinterClosed \/ PrinterDrop \/ Tick
    \/ BatchRecv \/ BatchClosed
    \/ \E j \in JobThreads(config) : JobRecv(j)
    \/ \E j \in JobThreads(config) : JobAcquire(j)
    \/ \E j \in JobThreads(config) : JobRelease(j)
    \/ \E j \in JobThreads(config) : JobClosed(j)
    \/ PoolJoin
    \/ InterruptFirst \/ InterruptSecond
    \/ ScanReturn

Spec == Init /\ [][Next]_vars


(***************************************************************************)
(* The scan under fair scheduling: a step of the program's threads (the    *)
(* walker's, the consumer's, the jobs', scan's own) that stays possible is *)
(* eventually taken.  Interrupts and the passing of the buffering time     *)
(* are not owed.                                                           *)
(***************************************************************************)
ThreadStep ==
    \/ \E w \in Threads : VisitQuit(w) \/ VisitFilter(w) \/ VisitSend(w)
    \/ WalkDone
    \/ PrinterRecv \/ PrinterClosed \/ PrinterDrop
    \/ BatchRecv \/ BatchClosed
    \/ \E j \in JobThreads(config) :
          JobRecv(j) \/ JobAcquire(j) \/ JobRelease(j) \/ JobClosed(j)
    \/ PoolJoin
    \/ ScanReturn

SpecFair == Spec /\ WF_vars(ThreadStep)

(***************************************************************************)
(* The specification of the printer alone: the consumer thread of a scan   *)
(* whose producers have finished, the channel holding the whole arrival    *)
(* sequence.  The sequences are all the short ones, and long ones of       *)
(* distinct paths in descending order.                                     *)
(***************************************************************************)
Messages == {EntryItem(p) : p \in 1 .. MaxPath} \cup {ErrorItem(0)}

RECURSIVE SeqsUpTo(_, _)
SeqsUpTo(S, n) ==
    IF n = 0 THEN {<<>>}
    ELSE LET shorter == SeqsUpTo(S, n - 1)
         IN  shorter \cup {Append(q, x) : q \in {r \in shorter : Len(r) = n - 1}, x \in S}

LongArrivals ==
    {[i \in 1 .. MAX_BUFFER_LENGTH + x |-> EntryItem(MAX_BUFFER_LENGTH + x + 1 - i)] :
        x \in 1 .. MaxExtra}

Arrivals == SeqsUpTo(Messages, MaxFeed) \cup LongArrivals

PrinterConfigs ==
    {Options(None, 1, k, FALSE, show, FALSE, Nothing) :
        k \in MaxResults, show \in BOOLEAN}

InitPrinter ==
    /\ \E cfg \in PrinterConfigs, q \in Arrivals :
          Start(cfg, [n \in Nodes |-> EntryOf(n, "nomatch")], q, FALSE)
    /\ fin = Nothing
    /\ fout = Nothing

NextPrinter == PrinterRecv \/ PrinterClosed \/ PrinterDrop \/ Tick \/ ScanReturn

SpecPrinter == InitPrinter /\ [][NextPrinter]_vars


(***************************************************************************)
(* The specification of filter_entry alone: one call on each pair of a     *)
(* configuration and an entry_o drawn from the sets below.                 *)
(***************************************************************************)
\* The shapes of entry_o: an entry, or an error (path-scoped or not, caused by
\* "not found" or not, on a path that is a symlink or not).
EntryShapes ==
    {[kind |-> "Ok", inner |-> "IoNotFound", path_symlink |-> FALSE]}
    \cup {[kind |-> "ErrWithPath", inner |-> i, path_symlink |-> l] :
             i \in {"IoNotFound", "IoOther", "NonIo"}, l \in BOOLEAN}
    \cup {[kind |-> "ErrOther", inner |-> "IoOther", path_symlink |-> l] : l \in BOOLEAN}

FilterEntry(shape, depth, has_name, name_match, path_match, ext_match, ftype, pmeta_ok, owner_match, is_file, size, mtime_ok) ==
    [kind |-> shape.kind, depth |-> depth, inner |-> shape.inner,
     path_symlink |-> shape.path_symlink, path |-> 1, has_name |-> has_name,
     name_match |-> name_match, path_match |-> path_match, ext_match |-> ext_match,
     ftype |-> ftype, meta_ok |-> TRUE, executable |-> FALSE, empty |-> FALSE,
     pmeta_ok |-> pmeta_ok, owner_match |-> owner_match, is_file |-> is_file,
     size |-> size, mtime_ok |-> mtime_ok, mtime |-> 1]

FilterOptions(min_depth, full_path, extensions, file_types, owner, sizes, times, prune) ==
    [command |-> None, threads |-> 1, max_results |-> Nothing, ls_colors |-> FALSE,
     show_filesystem_errors |-> FALSE, prune |-> prune, min_depth |-> min_depth,
     search_full_path |-> full_path, extensions |-> extensions,
     file_types |-> file_types, owner_constraint |-> owner,
     size_constraints |-> sizes, time_constraints |-> times]

FileTypes(files, directories) ==
    [files |-> files, directories |-> directories, symlinks |-> FALSE,
     sockets |-> FALSE, pipes |-> FALSE, executables_only |-> FALSE,
     empty_only |-> FALSE]

MinDepths == {Nothing} \cup {Some(d) : d \in 0 .. MaxMinDepth}

\* Inputs that vary what the walker hands over, the depth, the names and the
\* matching mode.
NameInputs ==
    {[cfg |-> FilterOptions(md, fp, ext, Nothing, FALSE, {}, {}, prune),
      entry |-> FilterEntry(shape, d, hn, nm, pm, em, "file", TRUE, TRUE, TRUE, 0, TRUE)] :
        md \in MinDepths, fp \in BOOLEAN, ext \in BOOLEAN, prune \in BOOLEAN,
        shape \in EntryShapes, d \in 0 .. MaxDepth, hn \in BOOLEAN,
        nm \in BOOLEAN, pm \in BOOLEAN, em \in BOOLEAN}

\* The sets of size constraints: none, one, and two that only size 1 satisfies.
SizeConstraintSets ==
    {{}, {[max |-> TRUE, limit |-> 0]},
     {[max |-> TRUE, limit |-> 1], [max |-> FALSE, limit |-> 1]}}

\* The sets of time constraints: none, one that the modification time 1
\* satisfies, and two of which it satisfies one.
TimeConstraintSets ==
    {{}, {[before |-> TRUE, t |-> 2]},
     {[before |-> TRUE, t |-> 2], [before |-> FALSE, t |-> 1]}}

\* Inputs that vary the extension, type, owner, size and time constraints and
\* what the file system answers for them.
ConstraintInputs ==
    {[cfg |-> FilterOptions(Nothing, FALSE, ext, ft, own, sz, tm, FALSE),
      entry |-> FilterEntry(shape, 1, TRUE, TRUE, TRUE, em, t, pmo, om, isf, size, mto)] :
        ext \in BOOLEAN, em \in BOOLEAN,
        ft \in {Nothing, Some(FileTypes(TRUE, FALSE)), Some(FileTypes(FALSE, TRUE))},
        own \in BOOLEAN,
        sz \in SizeConstraintSets,
        tm \in TimeConstraintSets,
        shape \in {x \in EntryShapes : x.kind = "Ok" \/ (x.inner = "IoNotFound" /\ x.path_symlink)},
        t \in {"file", "dir", "symlink", "other", None},
        pmo \in BOOLEAN, om \in BOOLEAN, isf \in BOOLEAN, size \in 0 .. 1,
        mto \in BOOLEAN}

FilterInputs == NameInputs \cup ConstraintInputs

InitFilter ==
    /\ Start(Options(None, 1, Nothing, FALSE, FALSE, FALSE, Nothing),
             [n \in Nodes |-> EntryOf(n, "nomatch")], <<>>, FALSE)
    /\ \E i \in FilterInputs : fin = Some(i)
    /\ fout = Nothing

\* The call filter_entry(config, pattern, entry_o).
FilterCall ==
    /\ fout = Nothing
    /\ fout' = Some(filter_entry(Get(fin).cfg, Get(fin).entry))
    /\ UNCHANGED <<config, walkVars, tx_open, rx_open, queue, sent, arrived,
                   printVars, elapsed, consumer, execVars, wants_to_quit, exited,
                   scan_pc, scan_result, fin>>

NextFilter == FilterCall

SpecFilter == InitFilter /\ [][NextFilter]_vars


(***************************************************************************)
(* The claims.                                                             *)
(***************************************************************************)
IsEntry(m) == m.tag = "Entry"
IsError(m) == m.tag = "Error"

\* The paths of the Entry messages of a sequence, in order.
EntryPaths(ms) ==
    LET es == SelectSeq(ms, IsEntry) IN [i \in 1 .. Len(es) |-> es[i].path]

NumEntries(ms) == Len(SelectSeq(ms, IsEntry))

IsPrefix(a, b) == Len(a) <= Len(b) /\ SubSeq(b, 1, Len(a)) = a

\* filter_entry makes an Entry of node n.
ProducesEntry(n) ==
    LET r == filter_entry(config, entries[n]) IN IsSome(r.item) /\ IsEntry(Get(r.item))

\* The nodes the walker holds: pending, or in a callback.
Held == work \cup {workers[w].node : w \in {x \in Threads : workers[x].pc = "send"}}

\* Every directory above n was yielded as a directory entry.
Reachable(n) == \A a \in Ancestors(n) : IsDir(entries[a])

\* C1: a callback that made an Entry holds Skip with pruning enabled and
\* Continue without; with pruning enabled, no node below a directory that filter_entry made
\* an Entry of is ever held by the walker (pending or handed to the filter) or
\* sent as a WorkerResult; with pruning disabled, once the walk has finished
\* without a Quit, every node the filter makes an Entry of, below matching
\* directories too, has been sent.
C1_Pruning ==
    /\ \A w \in Threads :
          (workers[w].pc = "send" /\ IsSome(workers[w].item)
              /\ IsEntry(Get(workers[w].item))) =>
             workers[w].next = IF config.prune THEN "Skip" ELSE "Continue"
    /\ config.prune =>
          /\ \A n \in Held : \A a \in Ancestors(n) : ~ProducesEntry(a)
          /\ \A i \in 1 .. Len(sent) :
                \A a \in Ancestors(sent[i].path) : ~ProducesEntry(a)
    /\ (~config.prune /\ scan_pc # "walking" /\ ~quit_now) =>
          \A n \in Nodes :
             (Reachable(n) /\ ProducesEntry(n)) =>
                \E i \in 1 .. Len(sent) : sent[i] = EntryItem(n)

\* A pruning scan has returned after sending the Entry of directory 1, whose
\* child 3 matches the pattern too.
C1_Witness ==
    /\ config.prune /\ scan_pc = "returned" /\ ~wants_to_quit
    /\ \E i \in 1 .. Len(sent) : sent[i] = EntryItem(1)
    /\ entries[3].kind = "Ok" /\ entries[3].name_match
    /\ Parent(3) = 1

C3_Cap ==
    (IsSome(config.max_results) /\ NumEntries(sent) > Get(config.max_results)) =>
        LET K == Get(config.max_results) IN
        /\ Len(printer.stdout) <= K
        /\ NumEntries(arrived) <= K
        /\ IsPrefix(arrived, sent)
        /\ consumer.pc = "done" =>
              /\ Len(printer.stdout) = K
              /\ NumEntries(arrived) = K
              /\ IsEntry(arrived[Len(arrived)])
              /\ arrived \o queue = sent

\* The printer stopped at a cap of 1 having pulled an Error and then the first
\* of two entries.
C3_Witness ==
    /\ consumer.pc = "done"
    /\ config.max_results = Some(1)
    /\ NumEntries(sent) = 2
    /\ Len(arrived) = 2 /\ IsError(arrived[1])
    /\ Len(printer.stdout) = 1

\* The jobs holding an output permit.
Printing == {j \in JobThreads(config) : jobs[j].pc = "print"}

\* The number of invocations on argument x.
Invocations(x) == IF x \in DOMAIN invoked THEN invoked[x] ELSE 0

\* C4: in pool mode at most one job holds the output permit, the two chunks of
\* an invocation's output are adjacent, no Entry is executed twice, only sent
\* entries are executed, and when the consumer has finished every Entry sent
\* has been executed exactly once.
C4_Pool ==
    config.command = "pool" =>
        /\ Cardinality(Printing) <= 1
        /\ \A i \in 1 .. Len(cmdout) :
              IF i % 2 = 1
              THEN cmdout[i][2] = "begin"
              ELSE cmdout[i] = <<cmdout[i - 1][1], "end">>
        /\ \A x \in DOMAIN invoked :
              invoked[x] = 1 /\ \E i \in 1 .. Len(sent) : sent[i] = EntryItem(x)
        /\ consumer.pc = "done" =>
              /\ \A i \in 1 .. Len(sent) :
                    IsEntry(sent[i]) => Invocations(sent[i].path) = 1
              /\ Len(cmdout) = 2 * NumEntries(sent)

\* A pool of two jobs has finished after three entries were sent.
C4_Witness ==
    /\ config.command = "pool" /\ config.threads = 2
    /\ consumer.pc = "done"
    /\ NumEntries(sent) = 3
    /\ Len(cmdout) = 6


\* C5: with the handler installed, an interrupt with the flag clear sets the
\* flag and changes nothing else; with the flag set no callback runs the
\* filter any more; a scan that returns with the flag set has dropped its
\* Senders, run the teardown and written every entry the printer accepted;
\* an interrupt with the flag set exits with KilledBySigint, and from then on
\* the printer is never touched.
C5_TwoStage ==
    /\ [][(~wants_to_quit /\ wants_to_quit') =>
             /\ HandlerInstalled(config)
             /\ exited' = None
             /\ UNCHANGED <<config, walkVars, tx_open, rx_open, queue, sent,
                            arrived, printVars, elapsed, consumer, execVars,
                            scan_pc, scan_result>>]_vars
    /\ [][wants_to_quit =>
             \A w \in Threads : workers[w].pc = "idle" => workers'[w].pc = "idle"]_vars
    /\ []((scan_pc = "returned" /\ wants_to_quit /\ HandlerInstalled(config)) =>
             /\ ~tx_open /\ ~rx_open
             /\ \A w \in Threads : workers[w].pc = "idle"
             /\ consumer.pc = "done"
             /\ Len(printer.stdout) = NumEntries(arrived)
             /\ scan_result = "KilledBySigint")
    /\ [][(wants_to_quit /\ exited = None /\ exited' # None) =>
             exited' = "KilledBySigint" /\ printer' = printer]_vars
    /\ [][exited # None => (printer' = printer /\ exited' = exited)]_vars

\* The second interrupt ended the process while the printer still held
\* buffered entries: they were never written.
C5_Witness ==
    /\ exited = "KilledBySigint"
    /\ wants_to_quit
    /\ printer.buffer # <<>>
    /\ printer.stdout = <<>>
    /\ consumer.pc = "teardown"

\* A sequence without repetitions.
NoRepeats(ms) == \A i, j \in 1 .. Len(ms) : ms[i] = ms[j] => i = j

\* C6 as stated: no message is received twice, and when scan has returned
\* every message sent has been received.
C6_Original ==
    /\ NoRepeats(arrived)
    /\ scan_pc = "returned" => \A i \in 1 .. Len(sent) :
                                  \E j \in 1 .. Len(arrived) : arrived[j] = sent[i]

\* C6 as amended: the messages received are, in order and without repetition,
\* the first messages sent, one consumer each; when scan has returned every
\* message sent has been received, unless the printer stopped at its
\* max-result cap, which leaves the messages still in the channel unconsumed.
C6_ConsumedOnce ==
    /\ NoRepeats(sent)
    /\ IsPrefix(arrived, sent)
    /\ rx_open => arrived \o queue = sent
    /\ IsPrefix(arrived \o queue, sent)
    /\ (scan_pc = "returned" /\ ~LimitReached(config, printer.num_results)) =>
          arrived = sent /\ queue = <<>>

\* A pool of two jobs has consumed three messages and scan has returned.
C6_Witness ==
    /\ config.command = "pool" /\ config.threads = 2
    /\ scan_pc = "returned"
    /\ Len(sent) = 3 /\ arrived = sent

\* C7: filter_entry returns (Continue, None) for every entry of depth 0,
\* whatever the configuration.
C7_RootDropped ==
    (IsSome(fout) /\ Get(fin).entry.kind = "Ok" /\ Get(fin).entry.depth = 0) =>
        Get(fout) = empty_ok

\* filter_entry was called on a depth-0 entry whose name and path match the
\* pattern, with no minimum depth configured.
C7_Witness ==
    /\ IsSome(fout)
    /\ Get(fin).entry.kind = "Ok" /\ Get(fin).entry.depth = 0
    /\ Get(fin).entry.has_name /\ Get(fin).entry.name_match
    /\ Get(fin).entry.path_match
    /\ ~IsSome(Get(fin).cfg.min_depth) /\ ~Get(fin).cfg.extensions

\* The entry_o of the call is the error of a dangling symlink.
FinBroken ==
    LET e == Get(fin).entry
    IN  e.kind = "ErrWithPath" /\ e.inner = "IoNotFound" /\ e.path_symlink

\* C8: with a minimum depth D configured, filter_entry makes an Entry only of
\* an entry whose depth is known and at least D, and drops every dangling
\* symlink; with none configured a dangling symlink goes through the remaining
\* filters, and becomes an Entry when it passes them.
C8_MinDepth ==
    IsSome(fout) =>
        LET cfg == Get(fin).cfg
            e == Get(fin).entry
            r == Get(fout)
        IN  /\ (IsSome(cfg.min_depth) /\ IsSome(r.item) /\ IsEntry(Get(r.item))) =>
                  e.kind = "Ok" /\ e.depth >= Get(cfg.min_depth)
            /\ (IsSome(cfg.min_depth) /\ FinBroken) => r = empty_ok
            /\ (~IsSome(cfg.min_depth) /\ FinBroken) =>
                  r = IF \/ PatternResult(cfg, e) # "match"
                          \/ ExtensionDrops(cfg, e)
                          \/ FileTypeDrops(cfg, "BrokenSymlink", e)
                          \/ OwnerDrops(cfg, e) \/ SizeDrops(cfg, e) \/ TimeDrops(cfg, e)
                      THEN [next |-> IF PatternResult(cfg, e) = "panic"
                                     THEN "Panic" ELSE "Continue",
                            item |-> Nothing]
                      ELSE [next |-> PruneState(cfg), item |-> Some(EntryItem(e.path))]

\* A dangling symlink whose name matches was dropped under a minimum depth
\* of 0.
C8_Witness ==
    /\ IsSome(fout) /\ FinBroken
    /\ Get(fin).cfg.min_depth = Some(0)
    /\ Get(fin).entry.has_name /\ Get(fin).entry.name_match
    /\ ~Get(fin).cfg.search_full_path /\ ~Get(fin).cfg.extensions
    /\ Get(fout) = empty_ok

C10_OneWay ==
    /\ printer.mode = "Buffering"
    /\ [](printer.mode \in {"Buffering", "Streaming"})
    /\ [][printer.mode = "Streaming" => printer'.mode = "Streaming"]_vars

\* The printer, already Streaming, accepted one more Entry and was torn down.
C10_Witness ==
    /\ consumer.pc = "done"
    /\ printer.mode = "Streaming"
    /\ late
    /\ Len(printer.stdout) >= 2
    /\ printer.stdout = EntryPaths(arrived)
    /\ IsEntry(arrived[1])

\* C11: scan returns only after the consumer thread has finished, and the
\* status it returns is KilledBySigint if the flag is set at that moment and
\* the consumer's outcome otherwise: Success in printer mode, the command's
\* outcome in batch mode, the merge of the jobs' outcomes in pool mode; the
\* flag can be set only where the handler is installed.
C11_Status ==
    /\ [][(scan_pc # "returned" /\ scan_pc' = "returned") =>
             /\ consumer.pc = "done" /\ consumer' = consumer
             /\ scan_result' = IF wants_to_quit THEN "KilledBySigint"
                               ELSE consumer.code]_vars
    /\ [](scan_pc # "returned" => scan_result = None)
    /\ []((consumer.pc = "done" /\ config.command = None) =>
             consumer.code = "Success")
    /\ []((consumer.pc = "done" /\ config.command = "batch") =>
             consumer.code \in CommandOutcomes /\ Invocations(batch) = 1)
    /\ []((consumer.pc = "done" /\ config.command = "pool") =>
             consumer.code = MergeAll(JobThreads(config), "Success"))
    /\ [](wants_to_quit => HandlerInstalled(config))
    /\ []((scan_pc = "returned" /\ ~wants_to_quit) => scan_result = consumer.code)

\* An interrupted printer scan, whose consumer finished with Success, has
\* returned KilledBySigint.
C11_Witness ==
    /\ scan_pc = "returned"
    /\ wants_to_quit
    /\ consumer = [pc |-> "done", code |-> "Success"]
    /\ scan_result = "KilledBySigint"
    /\ sent # <<>>

\* The entry_o of the call goes through the filter chain: it is neither the
\* root nor forwarded as an Error.
FinFiltered == (Get(fin).entry.kind = "Ok" /\ Get(fin).entry.depth > 0) \/ FinBroken

\* The file type filter_entry sees: a dangling symlink is a symlink.
FinType == IF Get(fin).entry.kind = "Ok" THEN Get(fin).entry.ftype ELSE "symlink"

\* The constraints, read off the configuration and the entry: each is
\* satisfied if it is not configured.
MinDepthOk(cfg, e) ==
    IsSome(cfg.min_depth) => (e.kind = "Ok" /\ e.depth >= Get(cfg.min_depth))
ExtensionOk(cfg, e) == cfg.extensions => (e.has_name /\ e.ext_match)
TypeOk(cfg, e, t) ==
    IsSome(cfg.file_types) =>
        /\ \/ (t = "file" /\ Get(cfg.file_types).files)
           \/ (t = "dir" /\ Get(cfg.file_types).directories)
           \/ (t = "symlink" /\ Get(cfg.file_types).symlinks)
           \/ (t = "socket" /\ Get(cfg.file_types).sockets)
           \/ (t = "pipe" /\ Get(cfg.file_types).pipes)
        /\ Get(cfg.file_types).executables_only =>
              (e.kind = "Ok" /\ e.meta_ok /\ e.executable)
        /\ Get(cfg.file_types).empty_only => e.empty
OwnerOk(cfg, e) == cfg.owner_constraint => (e.pmeta_ok /\ e.owner_match)
SizeOk(cfg, e) ==
    cfg.size_constraints # {} =>
        /\ e.is_file /\ e.pmeta_ok
        /\ \A sc \in cfg.size_constraints :
              IF sc.max THEN e.size <= sc.limit ELSE e.size >= sc.limit
TimeOk(cfg, e) ==
    cfg.time_constraints # {} =>
        /\ e.pmeta_ok /\ e.mtime_ok
        /\ \A tf \in cfg.time_constraints :
              IF tf.before THEN e.mtime < tf.t ELSE e.mtime > tf.t

\* The pattern matches the string the configuration selects.
PatternOk(cfg, e) ==
    IF cfg.search_full_path THEN e.path_match ELSE e.has_name /\ e.name_match

\* C12: for an entry that goes through the filter chain, filter_entry makes an
\* Entry exactly if the depth is admitted, the pattern matches and each of the
\* extension, type, owner, size and time constraints that is configured is
\* satisfied; an entry that fails one of them yields (Continue, None) whatever
\* the others say.
C12_Conjunction ==
    (IsSome(fout) /\ FinFiltered) =>
        LET cfg == Get(fin).cfg
            e == Get(fin).entry
            r == Get(fout)
            all == /\ MinDepthOk(cfg, e) /\ PatternOk(cfg, e)
                   /\ ExtensionOk(cfg, e) /\ TypeOk(cfg, e, FinType)
                   /\ OwnerOk(cfg, e) /\ SizeOk(cfg, e) /\ TimeOk(cfg, e)
        IN  /\ (IsSome(r.item) /\ IsEntry(Get(r.item))) <=> all
            /\ IsSome(r.item) => Get(r.item) = EntryItem(e.path)
            /\ (~all /\ r.next # "Panic") => r = empty_ok
            /\ ~(ExtensionOk(cfg, e) /\ TypeOk(cfg, e, FinType) /\ OwnerOk(cfg, e)
                   /\ SizeOk(cfg, e) /\ TimeOk(cfg, e)) => r = empty_ok \/ r.next = "Panic"

\* With all five constraints configured, a regular file that satisfies the
\* extension, type, size and time constraints and fails the owner constraint
\* alone was dropped.
C12_Witness ==
    /\ IsSome(fout) /\ FinFiltered
    /\ LET cfg == Get(fin).cfg
           e == Get(fin).entry
       IN  /\ cfg.extensions /\ IsSome(cfg.file_types) /\ cfg.owner_constraint
           /\ cfg.size_constraints # {} /\ cfg.time_constraints # {}
           /\ PatternOk(cfg, e) /\ ExtensionOk(cfg, e) /\ TypeOk(cfg, e, FinType)
           /\ SizeOk(cfg, e) /\ TimeOk(cfg, e)
           /\ ~OwnerOk(cfg, e) /\ e.pmeta_ok
    /\ Get(fout) = empty_ok

\* C13: the cancellation flag starts false; a step that sets it is the
\* handler's, which changes nothing else; and once it is set no step of a
\* producer, a consumer or scan clears it.
C13_Monotonic ==
    /\ ~wants_to_quit
    /\ [][wants_to_quit => wants_to_quit']_vars
    /\ [][(~wants_to_quit /\ wants_to_quit') =>
             (HandlerInstalled(config) /\ workers' = workers /\ consumer' = consumer
                /\ scan_pc' = scan_pc)]_vars

\* The flag was set while the walk was running, a callback saw it and
\* returned Quit, the printer finished and scan returned: the flag is still
\* set.
C13_Witness ==
    /\ wants_to_quit
    /\ quit_now
    /\ work # {}
    /\ consumer.pc = "done"
    /\ scan_pc = "returned"

\* C14: a callback that starts with the flag set returns Quit and neither
\* filters nor sends; one that starts with the flag clear runs filter_entry on
\* its entry; it then sends the result, if there is one, and returns Quit if
\* the send fails because the Receiver is gone, and the filter's signal in
\* every other case: the walker descends on Continue, does not on Skip, and
\* stops on Quit, which the filter itself never returns.
C14_Callback ==
    /\ [][(scan_pc = "walking" /\ wants_to_quit
              /\ work' # work /\ work' \subseteq work) =>
             /\ quit_now'
             /\ \E n \in work : work' = work \ {n}
             /\ UNCHANGED <<workers, queue, sent>>]_vars
    /\ [][\A w \in Threads :
             (workers[w].pc = "idle" /\ workers'[w].pc = "send") =>
                /\ ~wants_to_quit
                /\ \E n \in work :
                      /\ work' = work \ {n}
                      /\ workers'[w] =
                            [pc |-> "send", node |-> n,
                             next |-> filter_entry(config, entries[n]).next,
                             item |-> filter_entry(config, entries[n]).item]
                /\ UNCHANGED <<queue, sent, quit_now>>]_vars
    /\ [][\A w \in Threads :
             (workers[w].pc = "send" /\ workers'[w].pc = "idle") =>
                LET wk == workers[w]
                    failed == IsSome(wk.item) /\ ~rx_open
                    grown == IF wk.next = "Continue" /\ IsDir(entries[wk.node])
                             THEN work \cup Children(wk.node) ELSE work
                IN  /\ wk.next \in {"Continue", "Skip"}
                    /\ queue' = IF IsSome(wk.item) /\ rx_open
                                THEN Append(queue, Get(wk.item)) ELSE queue
                    /\ quit_now' = (quit_now \/ failed)
                    /\ work' = IF failed THEN work ELSE grown]_vars

\* With the flag clear, a callback made an Entry of a directory and found the
\* Receiver gone: it returned Quit and the walker did not descend.
C14_Witness ==
    /\ scan_pc = "walking"
    /\ ~wants_to_quit
    /\ quit_now
    /\ ~rx_open
    /\ \A w \in Threads : workers[w].pc = "idle"
    /\ work = {}
    /\ Len(sent) = 1

NumErrors(ms) == Len(SelectSeq(ms, IsError))

\* The smaller of two numbers.
Min(a, b) == IF a <= b THEN a ELSE b

\* C15: in printer mode the errors reported are all the Errors received if
\* error visibility is enabled and none otherwise; the result counter is the
\* number of Entries received and changes only on receiving an Entry, by one;
\* and with a cap K the printer stops having accepted K Entries, or all of
\* them if fewer were sent, however many Errors lie between them.
C15_Errors ==
    /\ [](config.command = None =>
            /\ stderr = IF config.show_filesystem_errors THEN NumErrors(arrived) ELSE 0
            /\ printer.num_results = NumEntries(arrived))
    /\ [][(config.command = None /\ printer'.num_results # printer.num_results) =>
             /\ queue # <<>> /\ IsEntry(Head(queue))
             /\ arrived' = Append(arrived, Head(queue))
             /\ printer'.num_results = printer.num_results + 1]_vars
    /\ [][(config.command = None /\ Len(arrived') > Len(arrived)
              /\ IsError(arrived'[Len(arrived')])) =>
             /\ printer' = printer
             /\ consumer' = consumer]_vars
    /\ []((config.command = None /\ consumer.pc = "done"
             /\ IsSome(config.max_results) /\ ~tx_open) =>
            NumEntries(arrived) = Min(Get(config.max_results), NumEntries(sent)))

\* With errors hidden and a cap of 2, the printer received an Entry, an Error
\* and the second Entry, and stopped: nothing was reported.
C15_Witness ==
    /\ config.command = None /\ ~config.show_filesystem_errors
    /\ config.max_results = Some(2)
    /\ consumer.pc = "done"
    /\ Len(arrived) = 3 /\ IsEntry(arrived[1]) /\ IsError(arrived[2])
    /\ IsEntry(arrived[3])
    /\ stderr = 0
    /\ printer.num_results = 2

\* The depth, the pattern and every configured constraint admit the entry.
ChainAdmits(cfg, e, t) ==
    /\ MinDepthOk(cfg, e) /\ PatternOk(cfg, e)
    /\ ExtensionOk(cfg, e) /\ TypeOk(cfg, e, t)
    /\ OwnerOk(cfg, e) /\ SizeOk(cfg, e) /\ TimeOk(cfg, e)

\* C16: filter_entry returns Quit for no input.  Of an error input it makes a
\* BrokenSymlink entry if the error is path-scoped, caused by "not found" and
\* its path is a symlink: the entry goes through the filter chain as a
\* symlink of undetermined depth, and becomes an Entry or nothing, never an
\* Error; every other error is forwarded as an Error of the same path,
\* with Continue.
C16_Errors ==
    IsSome(fout) =>
        LET cfg == Get(fin).cfg
            e == Get(fin).entry
            r == Get(fout)
        IN  /\ r.next # "Quit"
            /\ (e.kind # "Ok" /\ ~FinBroken) =>
                  r = [next |-> "Continue", item |-> Some(ErrorItem(e.path))]
            /\ FinBroken =>
                  /\ IsSome(r.item) => Get(r.item) = EntryItem(e.path)
                  /\ IsSome(r.item) <=> ChainAdmits(cfg, e, "symlink")
                  /\ e.has_name => r.next \in {"Continue", "Skip"}
                  /\ r.next = "Skip" <=> (cfg.prune /\ IsSome(r.item))
            /\ (IsSome(r.item) /\ IsError(Get(r.item))) => (e.kind # "Ok" /\ ~FinBroken)

\* With pruning enabled and no minimum depth, the not-found error of a path
\* that is a symlink, whose name matches, became an Entry.
C16_Witness ==
    /\ IsSome(fout) /\ FinBroken
    /\ Get(fin).cfg.prune /\ ~IsSome(Get(fin).cfg.min_depth)
    /\ Get(fin).entry.has_name /\ Get(fin).entry.name_match
    /\ Get(fout) = [next |-> "Skip", item |-> Some(EntryItem(Get(fin).entry.path))]

\* The jobs whose outcome is not Success.
Failed == {j \in DOMAIN jobs : jobs[j].code # "Success"}

\* The merge the pool owes: the fatal outcome if a job has it, else the
\* outcome of the first job that has not Success, else Success.
PoolOutcome ==
    IF \E j \in DOMAIN jobs : jobs[j].code = Fatal THEN Fatal
    ELSE IF Failed # {}
         THEN jobs[CHOOSE j \in Failed : \A k \in Failed : j <= k].code
         ELSE "Success"

\* C17: in pool mode there are exactly config.threads job threads; the
\* consumer finishes only in a step in which every one of them has exited, and
\* its outcome then is the fatal outcome if a job's outcome is fatal, else the
\* first job outcome that is not Success, else Success; no job runs on after
\* the merge.
C17_PoolStatus ==
    /\ [](config.command = "pool" => DOMAIN jobs = 1 .. config.threads)
    /\ [][(config.command = "pool" /\ consumer.pc # "done" /\ consumer'.pc = "done") =>
             /\ \A j \in DOMAIN jobs : jobs[j].pc = "done"
             /\ jobs' = jobs
             /\ consumer'.code = PoolOutcome]_vars
    /\ []((config.command = "pool" /\ consumer.pc = "done") =>
             /\ \A j \in DOMAIN jobs : jobs[j].pc = "done"
             /\ consumer.code = PoolOutcome
             /\ queue = <<>> /\ arrived = sent)

\* A pool of two jobs was joined, the first job's outcome GeneralError and
\* the second's fatal: the merged outcome is the fatal one.
C17_Witness ==
    /\ config.command = "pool" /\ config.threads = 2
    /\ consumer.pc = "done"
    /\ jobs[1].code = "GeneralError" /\ jobs[2].code = Fatal
    /\ consumer.code = Fatal

\* A step in which the printer accepts an Entry.
AcceptsEntry ==
    /\ config.command = None
    /\ Len(arrived') = Len(arrived) + 1
    /\ IsEntry(arrived'[Len(arrived')])

\* C18: until its teardown a Buffering printer has written nothing and holds
\* in its buffer, in arrival order, every Entry received, at most 1000 of
\* them; the Entry it accepts with 1000 entries buffered, or with the time
\* threshold passed, makes it write the buffer and that Entry in arrival
\* order, clear the buffer and turn Streaming, and no other Entry does; a
\* Streaming printer's buffer is empty and every Entry it accepts is written
\* at once, after what was written before.
C18_Flush ==
    /\ []((config.command = None /\ printer.mode = "Buffering"
             /\ consumer.pc # "done") =>
            /\ printer.stdout = <<>>
            /\ printer.buffer = EntryPaths(arrived)
            /\ Len(printer.buffer) <= MAX_BUFFER_LENGTH)
    /\ [][(AcceptsEntry /\ printer.mode = "Buffering") =>
             LET value == arrived'[Len(arrived')].path IN
             IF Len(printer.buffer) = MAX_BUFFER_LENGTH \/ elapsed
             THEN /\ printer'.mode = "Streaming"
                  /\ printer'.stdout = Append(printer.buffer, value)
                  /\ printer'.buffer = <<>>
             ELSE /\ printer'.mode = "Buffering"
                  /\ printer'.stdout = <<>>
                  /\ printer'.buffer = Append(printer.buffer, value)]_vars
    /\ [][(AcceptsEntry /\ printer.mode = "Streaming") =>
             /\ printer'.stdout = Append(printer.stdout, arrived'[Len(arrived')].path)
             /\ printer'.buffer = <<>>
             /\ printer'.mode = "Streaming"]_vars
    /\ []((config.command = None /\ printer.mode = "Streaming") =>
            /\ printer.buffer = <<>>
            /\ printer.stdout = EntryPaths(arrived))
    /\ [][(config.command = None /\ ~AcceptsEntry /\ consumer'.pc # "done") =>
             printer' = printer]_vars

\* Before the time threshold passed, the 1001st Entry made the printer write
\* its buffer; the 1002nd was written on arrival.
C18_Witness ==
    /\ config.command = None
    /\ ~elapsed
    /\ consumer.pc = "run"
    /\ printer.mode = "Streaming"
    /\ Len(arrived) = MAX_BUFFER_LENGTH + 2
    /\ Len(printer.stdout) = MAX_BUFFER_LENGTH + 2
    /\ printer.stdout[1] > printer.stdout[2]

\* The depth, the pattern and every configured constraint but the size
\* constraints admit the entry.
AdmitsBeforeSize(cfg, e, t) ==
    /\ MinDepthOk(cfg, e) /\ PatternOk(cfg, e)
    /\ ExtensionOk(cfg, e) /\ TypeOk(cfg, e, t)
    /\ OwnerOk(cfg, e) /\ TimeOk(cfg, e)

\* C19: with a size constraint configured filter_entry makes no Entry of an
\* entry whose path is not a regular file, nor of one whose metadata cannot
\* be read, nor of a regular file whose length fails one of the constraints;
\* a regular file whose length satisfies them all passes the size filter, and
\* with no size constraint configured every entry does: what the other
\* filters admit then becomes an Entry.
C19_Size ==
    (IsSome(fout) /\ FinFiltered) =>
        LET cfg == Get(fin).cfg
            e == Get(fin).entry
            r == Get(fout)
            sized == cfg.size_constraints # {}
            fits == \A sc \in cfg.size_constraints :
                       IF sc.max THEN e.size <= sc.limit ELSE e.size >= sc.limit
        IN  /\ (sized /\ ~e.is_file) => r.item = Nothing
            /\ (sized /\ ~e.pmeta_ok) => r.item = Nothing
            /\ (sized /\ ~fits) => r.item = Nothing
            /\ (sized /\ e.is_file /\ e.pmeta_ok /\ fits
                  /\ AdmitsBeforeSize(cfg, e, FinType)) =>
                  r.item = Some(EntryItem(e.path))
            /\ (~sized /\ AdmitsBeforeSize(cfg, e, FinType)) =>
                  r.item = Some(EntryItem(e.path))

\* Under two size constraints and no other, a regular file of a length that
\* satisfies one of them and fails the other was dropped.
C19_Witness ==
    /\ IsSome(fout) /\ FinFiltered
    /\ LET cfg == Get(fin).cfg
           e == Get(fin).entry
       IN  /\ Cardinality(cfg.size_constraints) = 2
           /\ ~cfg.extensions /\ ~IsSome(cfg.file_types) /\ ~cfg.owner_constraint
           /\ cfg.time_constraints = {}
           /\ e.kind = "Ok" /\ e.is_file /\ e.pmeta_ok
           /\ \E sc \in cfg.size_constraints : IsWithin(sc, e.size)
           /\ \E sc \in cfg.size_constraints : ~IsWithin(sc, e.size)
    /\ Get(fout) = empty_ok

\* C20: under fair scheduling every scan returns, unless a second interrupt
\* ends the process first; until then some thread can always take a step, and
\* a callback that has a result to send can always take its send step; a scan
\* returns only with the walk over, the Senders and the Receiver dropped and
\* the consumer finished.
C20_Termination ==
    /\ <>(scan_pc = "returned" \/ exited # None)
    /\ [](exited # None => (exited = "KilledBySigint" /\ wants_to_quit))
    /\ []((Running /\ scan_pc # "returned") => ENABLED ThreadStep)
    /\ []((Running /\ scan_pc = "walking") =>
             \A w \in Threads : workers[w].pc = "send" => ENABLED VisitSend(w))
    /\ [](scan_pc = "returned" =>
             /\ \A w \in Threads : workers[w].pc = "idle"
             /\ ~tx_open /\ ~rx_open
             /\ consumer.pc = "done"
             /\ \A j \in JobThreads(config) :
                   config.command = "pool" => jobs[j].pc = "done")

\* The printer stopped at its cap while the walk was running; a callback's
\* send failed, the walk was cut short, and scan has returned without an
\* interrupt.
C20_Witness ==
    /\ scan_pc = "returned"
    /\ ~wants_to_quit
    /\ LimitReached(config, printer.num_results)
    /\ quit_now
    /\ Len(sent) = Get(config.max_results)
    /\ work # {}

\* The number of occurrences of x in a sequence.
Count(s, x) == Cardinality({i \in 1 .. Len(s) : s[i] = x})

\* Two sequences hold the same elements the same number of times.
SameBag(s, t) ==
    /\ Len(s) = Len(t)
    /\ \A i \in 1 .. Len(s) : Count(s, s[i]) = Count(t, s[i])

\* C21: until the teardown every Entry the printer accepted is either written
\* or buffered, once, in arrival order; the teardown writes the buffered
\* entries, sorted, after what is written, and writes nothing when the printer
\* is Streaming; after a teardown that no forced exit prevented the output
\* holds every accepted Entry exactly once.
C21_Conservation ==
    /\ []((config.command = None /\ consumer.pc # "done") =>
            /\ printer.stdout \o printer.buffer = EntryPaths(arrived)
            /\ printer.stdout = <<>> \/ printer.buffer = <<>>)
    /\ [][(config.command = None /\ consumer.pc = "teardown"
              /\ consumer'.pc = "done") =>
             /\ arrived' = arrived
             /\ printer'.stdout =
                   IF printer.mode = "Streaming" THEN printer.stdout
                   ELSE printer.stdout \o SortPaths(printer.buffer)
             /\ printer.mode = "Streaming" => printer' = printer]_vars
    /\ []((config.command = None /\ consumer.pc = "done") =>
            /\ SameBag(printer.stdout, EntryPaths(arrived))
            /\ printer.num_results = Len(printer.stdout))
    /\ [][(config.command = None /\ consumer.pc = "done") =>
             printer' = printer]_vars

\* A printer that was still Buffering at its teardown had accepted the same
\* path twice and another one before it: all three were written, sorted.
C21_Witness ==
    /\ config.command = None
    /\ consumer.pc = "done"
    /\ printer.mode = "Buffering"
    /\ Len(printer.buffer) = 3
    /\ printer.buffer[2] = printer.buffer[3]
    /\ printer.buffer[1] > printer.buffer[2]
    /\ printer.stdout = SortPaths(printer.buffer)

=============================================================================
